---- MODULE Spec2Model ----
(***************************************************************************)
(* Model of the Datahub MCP server (src/main.py): the token store, the     *)
(* lifespan manager Datahub_lifespan, the decorators requires_auth and     *)
(* handle_api_errors, the dispatcher make_api_request and the two tools    *)
(* Datahub_dataset_list and Datahub_dataset_get_by_urn.                    *)
(*                                                                         *)
(* Python strings that the code trims, lower-cases or parses are sequences *)
(* of one-character strings; strings the code only concatenates are TLA+   *)
(* strings.  Optional[str] is a record [none, val].  An invocation is      *)
(* summarised by an execution record: the value it returns or the          *)
(* exception it lets escape, the HTTP requests it sent on the client, and  *)
(* whether the decorated function body ran.                                *)
(***************************************************************************)
EXTENDS Integers, Sequences, FiniteSets, TLC

\* ---------------------------------------------------------------- bounds
\* Longest content of the token file, in characters.
MaxFileLen == 2

\* ------------------------------------------------------------ characters
\* "U+E9" stands for one non-ASCII character (e with acute accent).
Whitespace == {" ", "\n"}
FileChars == {"a", "\n", "U+E9"}

UpperCase == <<"A","B","C","D","E","F","G","H","I","J","K","L","M",
               "N","O","P","Q","R","S","T","U","V","W","X","Y","Z">>
LowerCase == <<"a","b","c","d","e","f","g","h","i","j","k","l","m",
               "n","o","p","q","r","s","t","u","v","w","x","y","z">>
DigitChars == <<"0","1","2","3","4","5","6","7","8","9">>

\* str.lower() on one character.
LowerChar(c) ==
    IF \E i \in DOMAIN UpperCase : UpperCase[i] = c
    THEN LowerCase[CHOOSE i \in DOMAIN UpperCase : UpperCase[i] = c]
    ELSE c

\* str.lower()
Lower(s) == [i \in DOMAIN s |-> LowerChar(s[i])]

\* The Python string made of the characters of s.
RECURSIVE Join(_)
Join(s) == IF s = <<>> THEN "" ELSE s[1] \o Join(Tail(s))

\* str(n) / f"{n}" for an integer.
RECURSIVE IntToStr(_)
IntToStr(n) ==
    IF n < 0 THEN "-" \o IntToStr(0 - n)
    ELSE IF n < 10 THEN DigitChars[n + 1]
    ELSE IntToStr(n \div 10) \o DigitChars[(n % 10) + 1]

\* str.strip(): drop leading and trailing whitespace.
RECURSIVE LStrip(_)
LStrip(s) ==
    IF s # <<>> /\ s[1] \in Whitespace THEN LStrip(Tail(s)) ELSE s

RECURSIVE RStrip(_)
RStrip(s) ==
    IF s # <<>> /\ s[Len(s)] \in Whitespace
    THEN RStrip(SubSeq(s, 1, Len(s) - 1))
    ELSE s

Strip(s) == RStrip(LStrip(s))

\* All sequences over S of length at most n.
RECURSIVE SeqsUpTo(_, _)
SeqsUpTo(S, n) ==
    IF n = 0 THEN {<<>>}
    ELSE LET shorter == SeqsUpTo(S, n - 1)
         IN  shorter \cup {Append(s, c) : s \in shorter, c \in S}

\* ------------------------------------------------------------- Optional
NoneStr == [none |-> TRUE, val |-> ""]
SomeStr(s) == [none |-> FALSE, val |-> s]
NoneChars == [none |-> TRUE, val |-> <<>>]
SomeChars(s) == [none |-> FALSE, val |-> s]
NoneMap == [none |-> TRUE, val |-> <<>>]
SomeMap(m) == [none |-> FALSE, val |-> m]

\* Python truthiness of an Optional[str]: neither None nor "".
Truthy(o) == ~o.none /\ o.val # <<>>


\* ------------------------------------------------------- values in flight
\* A mapping (a Python dict / a JSON object) is a sequence of members
\* [k, v]; a scalar member value is kept as its literal text.
Envelope(msg) == <<[k |-> "error", v |-> msg]>>

\* What a call hands back: a returned mapping, or an exception that escapes.
Returned(m) == [raised |-> FALSE, value |-> m, exc |-> ""]
Raised(e) == [raised |-> TRUE, value |-> <<>>, exc |-> e]

\* Status codes the backend answers with.
Statuses == {200, 201, 401, 404}

\* Response texts: two JSON objects, one of them padded with whitespace,
\* the text "not found" and the empty text.
Texts ==
    { <<"{", "}">>,
      <<" ", "{", "\"", "a", "\"", ":", "1", "}", "\n">>,
      <<"n", "o", "t", " ", "f", "o", "u", "n", "d">>,
      <<>> }

\* Messages of the exceptions the HTTP client raises (httpx.ConnectError,
\* and httpx.ReadTimeout whose str() is empty).
ClientErrors == {"All connection attempts failed", ""}

\* What the backend does with one request: it answers, or the call raises.
Backends ==
    {[kind |-> "response", status |-> s, text |-> t, msg |-> ""] :
        s \in Statuses, t \in Texts}
    \cup {[kind |-> "raise", status |-> 0, text |-> <<>>, msg |-> m] :
        m \in ClientErrors}

\* response.json() on the texts of the model: an object with no member or
\* with one member "<letter>": <digit>, surrounded by optional whitespace.
ParseJson(text) ==
    LET t == Strip(text)
    IN  IF t = <<"{", "}">>
        THEN [ok |-> TRUE, value |-> <<>>]
        ELSE IF /\ Len(t) = 7
                /\ t[1] = "{" /\ t[2] = "\"" /\ t[4] = "\"" /\ t[5] = ":"
                /\ t[7] = "}"
                /\ \E i \in DOMAIN LowerCase : LowerCase[i] = t[3]
                /\ \E i \in DOMAIN DigitChars : DigitChars[i] = t[6]
        THEN [ok |-> TRUE, value |-> <<[k |-> t[3], v |-> t[6]]>>]
        ELSE [ok |-> FALSE, value |-> <<>>]

JSONDecodeError == "Expecting value: line 1 column 1 (char 0)"

\* ------------------------------------------------------------ token store
\* The token file: missing, present but failing to open or decode, or
\* readable with some content.
TokenFiles ==
    {[status |-> "missing", content |-> <<>>],
     [status |-> "unreadable", content |-> <<>>]}
    \cup {[status |-> "readable", content |-> c] :
            c \in SeqsUpTo(FileChars, MaxFileLen)}

\* load_stored_token without the strip().
load_stored_token_untrimmed(file) ==
    IF file.status = "readable"
    THEN SomeChars(file.content)
    ELSE NoneChars

\* load_stored_token: the trimmed content, or None when the file is
\* missing or reading it raises.
load_stored_token(file) ==
    IF file.status = "readable"
    THEN SomeChars(Strip(file.content))
    ELSE NoneChars

\* f"Bearer {stored_token}"
BearerHeader(token) == "Bearer " \o Join(token)

\* client.headers.update encodes a header value as ASCII and raises
\* UnicodeEncodeError on any other character.
HeaderEncodable(token) == \A i \in DOMAIN token : token[i] # "U+E9"

\* What the probe request of the startup does: the backend answers with a
\* status, the request raises, or the startup task is cancelled or
\* interrupted while it awaits the answer (a BaseException).
ProbeOutcomes ==
    {[kind |-> "response", status |-> s] : s \in Statuses}
    \cup {[kind |-> "raise", status |-> 0], [kind |-> "cancel", status |-> 0]}

NoProbe == [kind |-> "none", status |-> 0]

\* A probe check that accepts any answer, whatever its status.
ProbeAnswered(outcome) == outcome.kind = "response"

\* The startup keeps the token when the probe answers and
\* response.status_code != 200 is false.
ProbeAccepted(outcome) == outcome.kind = "response" /\ outcome.status = 200

\* Dropping the token while leaving the header on the client.
DropTokenKeepHeader(token) ==
    [access_token |-> NoneChars,
     authorization |-> SomeStr("Bearer " \o Join(token))]

\* ctx.access_token = None; client.headers.pop("Authorization", None)
DropToken(token) == [access_token |-> NoneChars, authorization |-> NoneStr]

\* ctx.access_token = stored_token; client.headers.update(...)
AttachToken(token) ==
    [access_token |-> SomeChars(token),
     authorization |-> SomeStr(BearerHeader(token))]

\* ------------------------------------------------------------- dispatcher
\* The request one call on the client sends.  The client adds its default
\* Authorization header to every request.
Request(verb, endpoint, params, json, auth) ==
    [verb |-> verb, endpoint |-> endpoint, params |-> params,
     json |-> json, authorization |-> auth]

NoRequest == Request("", "", NoneMap, NoneMap, NoneStr)

\* make_api_request.make_request: the call on the client chosen by
\* method.lower(), or ValueError for any other method.
make_request(method, endpoint, data, params, auth) ==
    LET m == Join(Lower(method))
    IN  IF m = "get"
        THEN [raised |-> FALSE, exc |-> "",
              request |-> Request("GET", endpoint, params, NoneMap, auth)]
        ELSE IF m = "post"
        THEN [raised |-> FALSE, exc |-> "",
              request |-> Request("POST", endpoint, params, data, auth)]
        ELSE IF m = "put"
        THEN [raised |-> FALSE, exc |-> "",
              request |-> Request("PUT", endpoint, NoneMap, data, auth)]
        ELSE IF m = "delete"
        THEN [raised |-> FALSE, exc |-> "",
              request |-> Request("DELETE", endpoint, NoneMap, NoneMap, auth)]
        ELSE [raised |-> TRUE,
              exc |-> "Unsupported HTTP method: " \o Join(method),
              request |-> NoRequest]

\* A status check that takes 200 alone for success.
StatusNot200(status) == status # 200

\* response.status_code not in [200, 201]
StatusFailed(status) == status \notin {200, 201}

\* ctx.request_context raises when the context the host passes is bound to
\* no request.
ContextLookupError == "Context is not available outside of a request"

\* A dispatcher that sends the request a second time after a 401, as an
\* automatic refresh would.
make_api_request_retry(ctxBound, method, endpoint, data, params, auth, backend) ==
    LET mr == make_request(method, endpoint, data, params, auth)
    IN  IF ~ctxBound
        THEN [result |-> Raised(ContextLookupError), requests |-> <<>>]
        ELSE IF mr.raised
        THEN [result |-> Raised(mr.exc), requests |-> <<>>]
        ELSE IF backend.kind = "raise"
        THEN [result |-> Raised(backend.msg), requests |-> <<mr.request>>]
        ELSE IF backend.status \notin {200, 201}
        THEN [result |->
                Returned(Envelope("API request failed: "
                                  \o IntToStr(backend.status) \o " - "
                                  \o Join(backend.text))),
              requests |-> IF backend.status = 401
                           THEN <<mr.request, mr.request>>
                           ELSE <<mr.request>>]
        ELSE LET parsed == ParseJson(backend.text)
             IN  [result |-> IF parsed.ok THEN Returned(parsed.value)
                                          ELSE Raised(JSONDecodeError),
                  requests |-> <<mr.request>>]

\* make_api_request: looks the lifespan context up, sends one request, then
\* returns the error envelope for a failed status and the parsed body
\* otherwise.  The exceptions of the lookup, of make_request, of the client
\* and of response.json() escape.
make_api_request(ctxBound, method, endpoint, data, params, auth, backend) ==
    LET mr == make_request(method, endpoint, data, params, auth)
    IN  IF ~ctxBound
        THEN [result |-> Raised(ContextLookupError), requests |-> <<>>]
        ELSE IF mr.raised
        THEN [result |-> Raised(mr.exc), requests |-> <<>>]
        ELSE IF backend.kind = "raise"
        THEN [result |-> Raised(backend.msg), requests |-> <<mr.request>>]
        ELSE IF StatusFailed(backend.status)
        THEN [result |->
                Returned(Envelope("API request failed: "
                                  \o IntToStr(backend.status) \o " - "
                                  \o Join(backend.text))),
              requests |-> <<mr.request>>]
        ELSE LET parsed == ParseJson(backend.text)
             IN  [result |-> IF parsed.ok THEN Returned(parsed.value)
                                          ELSE Raised(JSONDecodeError),
                  requests |-> <<mr.request>>]

\* ------------------------------------------------------------- decorators
\* An execution of a tool: its result, the requests it sent, and whether
\* the decorated function body was invoked.
Execution(result, requests, invoked) ==
    [result |-> result, requests |-> requests, invoked |-> invoked]

NotAuthenticated == "Not authenticated. Please authenticate first."

\* An error handler that reports the name of its own wrapper function.
handle_api_errors_wrapper_name(name, exec) ==
    IF exec.result.raised
    THEN Execution(Returned(Envelope("Error in wrapper: "
                                     \o exec.result.exc)),
                   exec.requests, exec.invoked)
    ELSE exec

\* handle_api_errors(func): an exception of func becomes the envelope
\* "Error in <func.__name__>: <str(e)>".
handle_api_errors(name, exec) ==
    IF exec.result.raised
    THEN Execution(Returned(Envelope("Error in " \o name \o ": "
                                     \o exec.result.exc)),
                   exec.requests, exec.invoked)
    ELSE exec

\* An auth gate that calls func without looking at the token.
requires_auth_unchecked(ctxBound, token, exec) ==
    IF ~ctxBound
    THEN Execution(Raised(ContextLookupError), <<>>, FALSE)
    ELSE exec

\* requires_auth(func): looks the lifespan context up, returns the
\* not-authenticated envelope when it holds no token, and calls func
\* otherwise.  The lookup is outside any try.
requires_auth(ctxBound, token, exec) ==
    IF ~ctxBound
    THEN Execution(Raised(ContextLookupError), <<>>, FALSE)
    ELSE IF ~Truthy(token)
    THEN Execution(Returned(Envelope(NotAuthenticated)), <<>>, FALSE)
    ELSE exec

\* ------------------------------------------------------------------ tools
GET == <<"g", "e", "t">>

ListEndpoint(count) ==
    "/v3/entity/dataset?systemMetadata=false&includeSoftDelete=false"
    \o "&skipCache=false&aspects=datasetKey&count=" \o IntToStr(count)
    \o "&sortCriteria=urn&sortOrder=ASCENDING"

UrnEndpoint(dashboard_urn) == "/v3/entity/dataset/" \o dashboard_urn

\* The undecorated function bodies.
dataset_list_body(ctxBound, count, auth, backend) ==
    LET r == make_api_request(ctxBound, GET, ListEndpoint(count), NoneMap, NoneMap,
                              auth, backend)
    IN  Execution(r.result, r.requests, TRUE)

dataset_get_by_urn_body(ctxBound, dashboard_urn, auth, backend) ==
    LET r == make_api_request(ctxBound, GET, UrnEndpoint(dashboard_urn), NoneMap,
                              NoneMap, auth, backend)
    IN  Execution(r.result, r.requests, TRUE)

\* The tools as registered: @requires_auth over @handle_api_errors over
\* the function.
Datahub_dataset_list(ctxBound, token, count, auth, backend) ==
    requires_auth(ctxBound, token,
        handle_api_errors("Datahub_dataset_list",
            dataset_list_body(ctxBound, count, auth, backend)))

Datahub_dataset_get_by_urn(ctxBound, token, dashboard_urn, auth, backend) ==
    requires_auth(ctxBound, token,
        handle_api_errors("Datahub_dataset_get_by_urn",
            dataset_get_by_urn_body(ctxBound, dashboard_urn, auth, backend)))

\* ------------------------------------------------------------------ state
VARIABLES
    tokenFile,      \* the file at ACCESS_TOKEN_STORE_PATH
    phase,          \* "idle", "running", "stopped", or "failed" when the
                    \* startup let an exception escape
    client,         \* httpx.AsyncClient: "none", "open" or "closed"
    access_token,   \* DatahubContext.access_token
    authorization,  \* the client's default Authorization header
    probe,          \* the outcome of the startup's probe request, if sent
    exitPath,       \* how the lifespan left its yield: "normal", "exception"
    lastCall        \* the latest invocation: its inputs and its execution

vars == <<tokenFile, phase, client, access_token, authorization, probe,
          exitPath, lastCall>>

\* Inputs of the invocations.
Counts == {5, 10}
Urns == {"urn:li:dataset:1", ""}
Methods ==
    {<<"G", "E", "T">>, <<"P", "o", "s", "t">>, <<"p", "u", "t">>,
     <<"d", "e", "l", "e", "t", "e">>, <<"p", "a", "t", "c", "h">>}
DataChoices == {NoneMap, SomeMap(<<[k |-> "name", v |-> "x"]>>)}
ParamChoices == {NoneMap, SomeMap(<<[k |-> "count", v |-> "5"]>>)}

Call(op, ctxBound, arg, method, data, params, backend, exec) ==
    [op |-> op, ctxBound |-> ctxBound, arg |-> arg, method |-> method,
     data |-> data, params |-> params, backend |-> backend,
     tokenBefore |-> access_token, headerBefore |-> authorization,
     clientBefore |-> client,
     result |-> exec.result, requests |-> exec.requests,
     invoked |-> exec.invoked]

NoCall ==
    [op |-> "none", ctxBound |-> TRUE, arg |-> "", method |-> <<>>,
     data |-> NoneMap, params |-> NoneMap,
     backend |-> [kind |-> "none", status |-> 0, text |-> <<>>, msg |-> ""],
     tokenBefore |-> NoneChars, headerBefore |-> NoneStr,
     clientBefore |-> "none",
     result |-> Returned(<<>>), requests |-> <<>>, invoked |-> FALSE]

Init ==
    /\ tokenFile \in TokenFiles
    /\ phase = "idle"
    /\ client = "none"
    /\ access_token = NoneChars
    /\ authorization = NoneStr
    /\ probe = NoProbe
    /\ exitPath = "none"
    /\ lastCall = NoCall

\* Datahub_lifespan up to its yield: construct the client and the context,
\* load the stored token and, when it is non-empty, attach it and probe
\* the backend; drop it again when the probe raises or is not answered 200.
\* An exception of the header update, and a BaseException of the probe,
\* escape before the try/finally is entered.
LifespanEnter ==
    /\ phase = "idle"
    /\ client' = "open"
    /\ LET stored == load_stored_token(tokenFile)
       IN  IF ~Truthy(stored)
           THEN /\ phase' = "running"
                /\ UNCHANGED <<access_token, authorization, probe>>
           ELSE IF ~HeaderEncodable(stored.val)
           THEN /\ phase' = "failed"
                /\ access_token' = stored
                /\ UNCHANGED <<authorization, probe>>
           ELSE \E outcome \in ProbeOutcomes :
                /\ probe' = outcome
                /\ IF outcome.kind = "cancel"
                   THEN /\ phase' = "failed"
                        /\ access_token' = AttachToken(stored.val).access_token
                        /\ authorization' =
                               AttachToken(stored.val).authorization
                   ELSE /\ phase' = "running"
                        /\ LET kept == IF ProbeAccepted(outcome)
                                       THEN AttachToken(stored.val)
                                       ELSE DropToken(stored.val)
                           IN  /\ access_token' = kept.access_token
                               /\ authorization' = kept.authorization
    /\ UNCHANGED <<tokenFile, exitPath, lastCall>>

\* The host invokes the tool Datahub_dataset_list while the server runs.
CallDatasetList ==
    /\ phase = "running"
    /\ \E ctxBound \in BOOLEAN, count \in Counts, backend \in Backends :
         lastCall' =
            Call("Datahub_dataset_list", ctxBound, IntToStr(count), GET,
                 NoneMap, NoneMap, backend,
                 Datahub_dataset_list(ctxBound, access_token, count,
                                      authorization, backend))
    /\ UNCHANGED <<tokenFile, phase, client, access_token, authorization,
                   probe, exitPath>>

\* The host invokes the tool Datahub_dataset_get_by_urn.
CallDatasetGetByUrn ==
    /\ phase = "running"
    /\ \E ctxBound \in BOOLEAN, urn \in Urns, backend \in Backends :
         lastCall' =
            Call("Datahub_dataset_get_by_urn", ctxBound, urn, GET,
                 NoneMap, NoneMap, backend,
                 Datahub_dataset_get_by_urn(ctxBound, access_token, urn,
                                            authorization, backend))
    /\ UNCHANGED <<tokenFile, phase, client, access_token, authorization,
                   probe, exitPath>>

\* make_api_request called on its own, with any method, body and query.
CallMakeApiRequest ==
    /\ phase = "running"
    /\ \E ctxBound \in BOOLEAN, method \in Methods, data \in DataChoices,
          params \in ParamChoices, backend \in Backends :
         LET r == make_api_request(ctxBound, method, "/v3/entity/dataset",
                                   data, params, authorization, backend)
         IN  lastCall' =
                Call("make_api_request", ctxBound, "", method, data, params,
                     backend, Execution(r.result, r.requests, TRUE))
    /\ UNCHANGED <<tokenFile, phase, client, access_token, authorization,
                   probe, exitPath>>

\* The lifespan is resumed after its yield: the finally closes the client.
Shutdown ==
    /\ phase = "running"
    /\ phase' = "stopped"
    /\ client' = "closed"
    /\ exitPath' = "normal"
    /\ UNCHANGED <<tokenFile, access_token, authorization, probe, lastCall>>

\* An exception of the running server is thrown into the lifespan at its
\* yield: the finally closes the client and the exception goes on.
ServerFailure ==
    /\ phase = "running"
    /\ phase' = "stopped"
    /\ client' = "closed"
    /\ exitPath' = "exception"
    /\ UNCHANGED <<tokenFile, access_token, authorization, probe, lastCall>>

Next ==
    \/ LifespanEnter
    \/ CallDatasetList
    \/ CallDatasetGetByUrn
    \/ Shutdown
    \/ ServerFailure

\* The server from the start of its lifespan, serving its two tools.
Spec == Init /\ [][Next]_vars

\* The dispatcher on its own: a running server, without a token or with the
\* accepted token "a", in which make_api_request is called with every
\* method, body, query and backend answer of the model.
InitDispatch ==
    /\ tokenFile \in {[status |-> "missing", content |-> <<>>],
                      [status |-> "readable", content |-> <<"a">>]}
    /\ phase = "running"
    /\ client = "open"
    /\ LET stored == load_stored_token(tokenFile)
       IN  IF Truthy(stored)
           THEN /\ access_token = AttachToken(stored.val).access_token
                /\ authorization = AttachToken(stored.val).authorization
                /\ probe = [kind |-> "response", status |-> 200]
           ELSE /\ access_token = NoneChars
                /\ authorization = NoneStr
                /\ probe = NoProbe
    /\ exitPath = "none"
    /\ lastCall = NoCall

NextDispatch == CallMakeApiRequest

SpecDispatch == InitDispatch /\ [][NextDispatch]_vars

\* ----------------------------------------------------------------- claims
CatalogOps == {"Datahub_dataset_list", "Datahub_dataset_get_by_urn"}
SupportedMethods ==
    {<<"G", "E", "T">>, <<"P", "o", "s", "t">>, <<"p", "u", "t">>,
     <<"d", "e", "l", "e", "t", "e">>}
NotFoundText == <<"n", "o", "t", " ", "f", "o", "u", "n", "d">>
Started == phase \in {"running", "stopped"}

\* A call of a catalog operation whose context reaches the session context.
CatalogCall == lastCall.op \in CatalogOps /\ lastCall.ctxBound

\* token is content without its leading and trailing whitespace.
IsTrimOf(token, content) ==
    /\ token # <<>>
    /\ token[1] \notin Whitespace
    /\ token[Len(token)] \notin Whitespace
    /\ \E i \in 1..Len(content) :
         /\ i + Len(token) - 1 <= Len(content)
         /\ SubSeq(content, i, i + Len(token) - 1) = token
         /\ \A j \in 1..Len(content) :
              (j < i \/ j > i + Len(token) - 1) => content[j] \in Whitespace

\* C1: a catalog operation invoked while the session context holds no token
\* returns exactly the not-authenticated envelope, does not invoke the
\* wrapped operation and sends no HTTP request.
C1_NoTokenShortCircuits ==
    (CatalogCall /\ ~Truthy(lastCall.tokenBefore)) =>
        /\ lastCall.result =
             Returned(Envelope("Not authenticated. Please authenticate first."))
        /\ ~lastCall.invoked
        /\ lastCall.requests = <<>>

C1_Witness ==
    /\ lastCall.op = "Datahub_dataset_list"
    /\ lastCall.ctxBound
    /\ lastCall.tokenBefore.none
    /\ lastCall.backend.kind = "response"
    /\ lastCall.backend.status = 200
    /\ lastCall.requests = <<>>

\* C2: with a token present, a failure with message m raised by the wrapped
\* call (by the HTTP client, or by the parsing of the answer) is returned as
\* {"error": "Error in <name>: m"} with the name of the operation invoked,
\* and does not escape to the host.
C2_FailureNamedAfterOperation ==
    (CatalogCall /\ Truthy(lastCall.tokenBefore)) =>
        /\ ~lastCall.result.raised
        /\ lastCall.backend.kind = "raise" =>
             lastCall.result =
                Returned(Envelope("Error in " \o lastCall.op \o ": "
                                  \o lastCall.backend.msg))
        /\ ( /\ lastCall.backend.kind = "response"
             /\ lastCall.backend.status \in {200, 201}
             /\ lastCall.backend.text \in {<<>>, NotFoundText} ) =>
             lastCall.result =
                Returned(Envelope("Error in " \o lastCall.op
                    \o ": Expecting value: line 1 column 1 (char 0)"))

C2_Witness ==
    /\ lastCall.op = "Datahub_dataset_get_by_urn"
    /\ lastCall.ctxBound
    /\ Truthy(lastCall.tokenBefore)
    /\ lastCall.backend.kind = "raise"
    /\ lastCall.backend.msg = "All connection attempts failed"
    /\ lastCall.invoked
    /\ lastCall.result.value # <<>>

\* C3: every invocation of a catalog operation returns a mapping and never
\* lets a failure escape to the host, wherever the failure arises, the
\* lookup of the session context by the auth gate included.
C3_NoFailureEscapes ==
    lastCall.op \in CatalogOps => ~lastCall.result.raised

\* C4: a startup whose probe raises or is answered with a non-success status
\* completes with the token cleared and no Authorization header, and every
\* later catalog operation is short-circuited by the auth gate.
C4_RejectedTokenDropped ==
    ( /\ Started
      /\ \/ probe.kind = "raise"
         \/ probe.kind = "response" /\ probe.status \notin 200..299 ) =>
        /\ access_token = NoneChars
        /\ authorization = NoneStr
        /\ CatalogCall =>
             /\ lastCall.result =
                  Returned(Envelope(
                      "Not authenticated. Please authenticate first."))
             /\ lastCall.requests = <<>>

C4_Witness ==
    /\ phase = "running"
    /\ probe.kind = "response"
    /\ probe.status = 401
    /\ lastCall.op = "Datahub_dataset_get_by_urn"
    /\ lastCall.ctxBound
    /\ ~lastCall.invoked

\* C5: a startup with a stored token, non-empty after trimming, whose probe
\* is answered 200 leaves access_token equal to the trimmed token and the
\* Authorization header equal to "Bearer <token>", and both stay so: every
\* later catalog operation sends its request with that header.
C5_AcceptedTokenKept ==
    (Started /\ probe.kind = "response" /\ probe.status = 200) =>
        /\ ~access_token.none
        /\ IsTrimOf(access_token.val, tokenFile.content)
        /\ authorization = SomeStr("Bearer " \o Join(access_token.val))
        /\ CatalogCall =>
             /\ lastCall.invoked
             /\ Len(lastCall.requests) = 1
             /\ lastCall.requests[1].authorization = authorization

C5_Witness ==
    /\ phase = "running"
    /\ probe.kind = "response"
    /\ probe.status = 200
    /\ tokenFile.content = <<"a", "\n">>
    /\ access_token.val = <<"a">>
    /\ authorization.val = "Bearer a"
    /\ lastCall.op = "Datahub_dataset_list"
    /\ lastCall.ctxBound

\* C6: once the lifespan has constructed the client, the client is closed on
\* every exit path of the lifespan, a failed startup included, and no
\* catalog operation runs on a closed client.
C6_ClientClosedOnEveryExit ==
    /\ phase \in {"stopped", "failed"} => client = "closed"
    /\ lastCall.op \in CatalogOps => lastCall.clientBefore = "open"

\* C7: for a supported verb, make_api_request returns the parsed JSON body
\* when the status is 200 or 201 and the envelope
\* "API request failed: <status> - <response text>" for every other status.
C7_StatusPartition ==
    ( /\ lastCall.op = "make_api_request"
      /\ lastCall.ctxBound
      /\ lastCall.method \in SupportedMethods
      /\ lastCall.backend.kind = "response" ) =>
        /\ ( /\ lastCall.backend.status \in {200, 201}
             /\ lastCall.backend.text = <<"{", "}">> ) =>
             lastCall.result = Returned(<<>>)
        /\ ( /\ lastCall.backend.status \in {200, 201}
             /\ lastCall.backend.text \notin {<<"{", "}">>, <<>>, NotFoundText}
           ) => lastCall.result = Returned(<<[k |-> "a", v |-> "1"]>>)
        /\ lastCall.backend.status \notin {200, 201} =>
             lastCall.result =
                Returned(Envelope("API request failed: "
                                  \o IntToStr(lastCall.backend.status)
                                  \o " - " \o Join(lastCall.backend.text)))
        /\ ( /\ lastCall.backend.status = 404
             /\ lastCall.backend.text = NotFoundText ) =>
             lastCall.result =
                Returned(Envelope("API request failed: 404 - not found"))

C7_Witness ==
    /\ lastCall.op = "make_api_request"
    /\ lastCall.ctxBound
    /\ lastCall.method = <<"d", "e", "l", "e", "t", "e">>
    /\ lastCall.backend.kind = "response"
    /\ lastCall.backend.status = 201
    /\ lastCall.result = Returned(<<[k |-> "a", v |-> "1"]>>)

\* C8: the query parameters given to make_api_request are attached to the
\* request for every supported verb; POST and PUT carry the body as JSON,
\* GET and DELETE carry none.
C8_ParamsOnEveryVerb ==
    ( /\ lastCall.op = "make_api_request"
      /\ lastCall.ctxBound
      /\ lastCall.method \in SupportedMethods ) =>
        /\ Len(lastCall.requests) = 1
        /\ lastCall.requests[1].params = lastCall.params
        /\ lastCall.requests[1].json =
             IF lastCall.requests[1].verb \in {"POST", "PUT"}
             THEN lastCall.data
             ELSE NoneMap

C10_TokenIffHeader ==
    Started =>
        /\ access_token.none <=> authorization.none
        /\ ~access_token.none =>
             /\ access_token.val # <<>>
             /\ authorization.val = "Bearer " \o Join(access_token.val)
        /\ ( \/ tokenFile.status # "readable"
             \/ \A i \in DOMAIN tokenFile.content :
                  tokenFile.content[i] \in Whitespace ) =>
             /\ access_token.none
             /\ authorization.none
             /\ probe.kind = "none"

C10_Witness ==
    /\ phase = "running"
    /\ tokenFile.status = "readable"
    /\ tokenFile.content = <<"a", "a">>
    /\ probe.kind = "response"
    /\ probe.status = 404
    /\ access_token.none
    /\ authorization.none
    /\ lastCall.op = "Datahub_dataset_list"

====
